---- MODULE Spec2Model ----
(***************************************************************************)
(* State-machine model of src/src/fft_correlate.c (crimm): the bounded     *)
(* best-score selector get_top_n_scores, the circular realignment routines *)
(* flip_and_roll / roll_cur_idx / sum_grids, and the batched FFT           *)
(* correlation fft_correlate_batch behind its Python wrapper.              *)
(***************************************************************************)
EXTENDS Integers, Sequences, FiniteSets, TLC

VARIABLES
  \* ---- get_top_n_scores ----
  scores,        \* float* scores, as a sequence (C index i is position i+1)
  top_n_poses,   \* int top_n_poses
  heap,          \* ScoreIndexPair* heap, as a sequence; Uninit marks a slot
                 \* malloc returned and nothing has written yet
  sel_i,         \* loop variable i of the scan loop
  top_scores,    \* ScoreIndexPair* top_scores (the output array)
  selPc,         \* "scan" | "done"
  \* ---- flip_and_roll ----
  frDims,        \* PyArray_DIMS(grids): <<n_orientations, n_grids, nx, ny, nz>>
  frGrids,       \* the data of grids, flat in C order (address a is position a+1)
  frOrig,        \* the data of grids before the first call
  frSteps,       \* the roll_steps of the calls made so far
  frPc,          \* "ok" | "undefined" (a call read outside its orientation)
  \* ---- py_sum_grids / sum_grids ----
  sgArgs,        \* ndim and dtype of the two arrays handed to py_sum_grids
  sgDims,        \* PyArray_DIMS(grids): <<n_orientations, n_grids, nx, ny, nz>>
  sgResDims,     \* PyArray_DIMS(result): <<n_orientations, nx, ny, nz>>
  sgGrids,       \* the data of grids, flat in C order
  sgResult,      \* the data of result, flat in C order
  sgResult0,     \* the data of result when py_sum_grids is called
  sgRoll,        \* int roll_steps
  sgPc,          \* "call" | "TypeError" | "done" | "undefined"
  \* ---- py_fft_correlate_batch / fft_correlate_batch ----
  cbArgs,        \* ndim and dtype of recep_grid and result
  recepDims,     \* PyArray_DIMS(recep_grid): <<n_grids, nx, ny, nz>>
  resultDims,    \* PyArray_DIMS(result): <<n_orientations, n_grids, nx, ny, nz>>
  n_threads,     \* int n_threads
  recep,         \* the data of recep_grid, flat in C order
  recep0,        \* the data of recep_grid when the call is made
  lig,           \* the data of result, flat in C order
  ligWrites,     \* per cell of result: how many times the call has written it
  handle,        \* fft_r, fft_l, plan_fwd, plan_inv: "none" | "null" | "live" | "freed"
  released,      \* per handle: how many times it was released
  fft_rVal,      \* contents of the buffer fft_r
  fft_lVal,      \* contents of fft_l, one slice of N_fft_points per orientation
  cb_i,          \* loop variable i (the channel)
  wpc,           \* per iteration j of the parallel loop: the statement it runs next
  nExec,         \* transforms and pointwise multiplies executed so far
  cbPc           \* position of the calling thread

selVars == <<scores, top_n_poses, heap, sel_i, top_scores, selPc>>
frVars == <<frDims, frGrids, frOrig, frSteps, frPc>>
sgVars == <<sgArgs, sgDims, sgResDims, sgGrids, sgResult, sgResult0, sgRoll, sgPc>>

cbVars == <<cbArgs, recepDims, resultDims, n_threads, recep, recep0, lig, ligWrites,
            handle, released, fft_rVal, fft_lVal, cb_i, wpc, nExec, cbPc>>

vars == <<selVars, frVars, sgVars, cbVars>>

(***************************************************************************)
(* Bounds of the model                                                     *)
(***************************************************************************)
MaxN == 4
MaxTop == 3
MaxScore == 2
MaxOrient == 2
MaxChan == 2
MaxDim == 2
MaxRoll == 2
MaxCalls == 2
MaxBase == 1
MaxPoints == 2
MaxThreads == 2

Scores == 0..MaxScore

RECURSIVE SeqsUpTo(_, _)
SeqsUpTo(S, n) ==
  IF n = 0 THEN {<<>>}
  ELSE LET shorter == SeqsUpTo(S, n - 1)
       IN  shorter \cup {Append(s, x) : s \in {t \in shorter : Len(t) = n - 1}, x \in S}

(***************************************************************************)
(* get_top_n_scores                                                        *)
(***************************************************************************)
\* typedef struct { int index; float score; } ScoreIndexPair;
ScoreIndexPair(i, s) == [index |-> i, score |-> s]

\* A slot of malloc'ed memory nothing has written yet.
Uninit == [index |-> -1, score |-> -1]

\* What a read of a never-written heap slot can yield.
Garbage == {ScoreIndexPair(-1, s) : s \in Scores}

\* A comparator with the two tests swapped: ascending order.
comparator_ascending(p, q) ==
  (IF p.score > q.score THEN 1 ELSE 0) - (IF p.score < q.score THEN 1 ELSE 0)

\* comparator: (l < r) - (l > r), so a larger score sorts earlier.
comparator(p, q) ==
  (IF p.score < q.score THEN 1 ELSE 0) - (IF p.score > q.score THEN 1 ELSE 0)

Injections(n) == {f \in [1..n -> 1..n] : \A a, b \in 1..n : f[a] = f[b] => a = b}

\* qsort(heap, n, size, comparator): some permutation of the array that is
\* ordered by the comparator. qsort is not stable: elements that compare equal
\* may come out in any order.
qsort(h) ==
  {[k \in 1..Len(h) |-> h[f[k]]] : f \in
     {g \in Injections(Len(h)) :
        \A a, b \in 1..Len(h) : a < b => comparator(h[g[a]], h[g[b]]) <= 0}}

\* Each routine is exercised under a specification of its own; the state of
\* the routines a specification does not run stays as set here.
SelIdle ==
  /\ scores = <<>>
  /\ top_n_poses = 1
  /\ heap = <<>>
  /\ sel_i = 0
  /\ top_scores = <<>>
  /\ selPc = "idle"

FrIdle ==
  /\ frDims = <<0, 0, 0, 0, 0>>
  /\ frGrids = <<>>
  /\ frOrig = <<>>
  /\ frSteps = <<>>
  /\ frPc = "idle"

SgIdle ==
  /\ sgArgs = <<>>
  /\ sgDims = <<0, 0, 0, 0, 0>>
  /\ sgResDims = <<0, 0, 0, 0>>
  /\ sgGrids = <<>>
  /\ sgResult = <<>>
  /\ sgResult0 = <<>>
  /\ sgRoll = 0
  /\ sgPc = "idle"

CbIdle ==
  /\ cbArgs = <<>>
  /\ recepDims = <<0, 0, 0, 0>>
  /\ resultDims = <<0, 0, 0, 0, 0>>
  /\ n_threads = 1
  /\ recep = <<>>
  /\ recep0 = <<>>
  /\ lig = <<>>
  /\ ligWrites = <<>>
  /\ handle = <<>>
  /\ released = <<>>
  /\ fft_rVal = <<>>
  /\ fft_lVal = <<>>
  /\ cb_i = 0
  /\ wpc = <<>>
  /\ nExec = 0
  /\ cbPc = "idle"

SelInit ==
  /\ FrIdle /\ SgIdle /\ CbIdle
  /\ scores \in SeqsUpTo(Scores, MaxN)
  /\ top_n_poses \in 1..MaxTop
  /\ heap = [k \in 1..top_n_poses |-> Uninit]
  /\ sel_i = 0
  /\ top_scores = <<>>
  /\ selPc = "scan"

\* One iteration of the scan loop, lines 40-55.
GetTopNScoresLoop ==
  /\ selPc = "scan"
  /\ sel_i < Len(scores)
  /\ \/ /\ sel_i < top_n_poses
        /\ LET filled == [heap EXCEPT ![sel_i + 1] =
                            ScoreIndexPair(sel_i, scores[sel_i + 1])]
           IN  IF sel_i = top_n_poses - 1
               THEN heap' \in qsort(filled)
               ELSE heap' = filled
     \/ /\ sel_i >= top_n_poses
        /\ scores[sel_i + 1] < heap[1].score
        /\ heap' \in qsort([heap EXCEPT ![1] =
                             ScoreIndexPair(sel_i, scores[sel_i + 1])])
     \/ /\ sel_i >= top_n_poses
        /\ ~(scores[sel_i + 1] < heap[1].score)
        /\ heap' = heap
  /\ sel_i' = sel_i + 1
  /\ UNCHANGED <<scores, top_n_poses, top_scores, selPc, frVars, sgVars, cbVars>>

\* The copy-out loop and the return, lines 57-63. A slot that was never
\* written is read uninitialised: any value may come out.
GetTopNScoresCopy ==
  /\ selPc = "scan"
  /\ sel_i = Len(scores)
  /\ top_scores' \in
       {t \in [1..top_n_poses -> Garbage \cup {heap[k] : k \in 1..top_n_poses}] :
          \A k \in 1..top_n_poses :
             IF heap[k] = Uninit THEN t[k] \in Garbage ELSE t[k] = heap[k]}
  /\ selPc' = "done"
  /\ UNCHANGED <<scores, top_n_poses, heap, sel_i, frVars, sgVars, cbVars>>

SelNext == GetTopNScoresLoop \/ GetTopNScoresCopy

SpecSel == SelInit /\ [][SelNext]_vars

(***************************************************************************)
(* flip_and_roll, roll_cur_idx                                             *)
(***************************************************************************)
\* The C remainder a % b for b > 0: truncated, so negative for negative a.
CRem(a, b) == IF a >= 0 THEN a % b ELSE -((-a) % b)

RollSteps == (-1)..MaxRoll

\* Spatial shapes (nx, ny, nz).
Shapes == {<<a, b, c>> : a \in 1..MaxDim, b \in 1..MaxDim, c \in 1..MaxDim}

\* roll_cur_idx, lines 175-177; flip_and_roll computes the same expression
\* inline, lines 162-164.
roll_cur_idx(nx, ny, nz, x, y, z, roll_steps) ==
  CRem(x + roll_steps, nx) * ny * nz +
  CRem(y + roll_steps, ny) * nz +
  CRem(z + roll_steps, nz)

\* The loops of flip_and_roll from the flat step number `step` on: step is
\* (i * n_grids + j) * N_grid_points + k, which is also the address written.
\* The source is read through cur_arr, the first grid of orientation i, in
\* the array that is being written. A read outside orientation i's own data
\* (another worker's data, or outside the array) leaves the result undefined.
RECURSIVE FlipAndRollFrom(_, _, _, _)
FlipAndRollFrom(mem, d, roll_steps, step) ==
  LET n_grids == d[2]
      nx == d[3]
      ny == d[4]
      nz == d[5]
      N_grid_points == nx * ny * nz
      i == step \div (n_grids * N_grid_points)
      k == step % N_grid_points
      x == k \div (ny * nz)
      y == (k % (ny * nz)) \div nz
      z == k % nz
      src == i * n_grids * N_grid_points
               + roll_cur_idx(nx, ny, nz, x, y, z, roll_steps)
  IN  IF step >= d[1] * n_grids * N_grid_points
      THEN [ok |-> TRUE, mem |-> mem]
      ELSE IF src < i * n_grids * N_grid_points
                \/ src >= (i + 1) * n_grids * N_grid_points
           THEN [ok |-> FALSE, mem |-> mem]
           ELSE FlipAndRollFrom([mem EXCEPT ![step + 1] = mem[src + 1]],
                                d, roll_steps, step + 1)

FrInit ==
  /\ SelIdle /\ SgIdle /\ CbIdle
  /\ \E o \in 1..MaxOrient, c \in 1..MaxChan, sh \in Shapes :
       /\ frDims = <<o, c, sh[1], sh[2], sh[3]>>
       /\ frGrids = [a \in 1..(o * c * sh[1] * sh[2] * sh[3]) |-> a]
  /\ frOrig = frGrids
  /\ frSteps = <<>>
  /\ frPc = "ok"

\* One call flip_and_roll(grids, roll_steps).
FlipAndRoll ==
  /\ frPc = "ok"
  /\ Len(frSteps) < MaxCalls
  /\ \E roll_steps \in RollSteps :
       LET r == FlipAndRollFrom(frGrids, frDims, roll_steps, 0)
       IN  /\ frSteps' = Append(frSteps, roll_steps)
           /\ \/ /\ r.ok
                 /\ frGrids' = r.mem
                 /\ frPc' = "ok"
              \/ /\ ~r.ok
                 /\ frGrids' = frGrids
                 /\ frPc' = "undefined"
  /\ UNCHANGED <<frDims, frOrig, selVars, sgVars, cbVars>>

FrNext == FlipAndRoll

SpecRoll == FrInit /\ [][FrNext]_vars

(***************************************************************************)
(* py_sum_grids, sum_grids                                                 *)
(***************************************************************************)
\* ndim and dtype of grids and result as py_sum_grids may be handed them: the
\* arrays sum_grids expects, and one of the four properties off.
SgArgKinds ==
  {[gridsNdim |-> 5, gridsType |-> "float32", resultNdim |-> 4, resultType |-> "float32"],
   [gridsNdim |-> 4, gridsType |-> "float32", resultNdim |-> 4, resultType |-> "float32"],
   [gridsNdim |-> 5, gridsType |-> "float64", resultNdim |-> 4, resultType |-> "float32"],
   [gridsNdim |-> 5, gridsType |-> "float32", resultNdim |-> 5, resultType |-> "float32"],
   [gridsNdim |-> 5, gridsType |-> "float32", resultNdim |-> 4, resultType |-> "float64"]}

SgArgsValid(a) ==
  /\ a.gridsNdim = 5 /\ a.gridsType = "float32"
  /\ a.resultNdim = 4 /\ a.resultType = "float32"

\* Shapes of the result array: the one matching grids, and those with one
\* extent cut to 1 (py_sum_grids does not compare the two arrays' shapes).
SgResultShapes(o, sh) ==
  {<<o, sh[1], sh[2], sh[3]>>, <<1, sh[1], sh[2], sh[3]>>, <<o, 1, sh[2], sh[3]>>,
   <<o, sh[1], 1, sh[3]>>, <<o, sh[1], sh[2], 1>>}

\* The loops of sum_grids, lines 196-212, from the flat step number `step` on:
\* step is (i * n_grids + j) * N_grid_points + t, where t counts the iterations
\* of the x, y, z loops (x, y, z run down while new_x, new_y, new_z run up).
\* cur_arr_result is PyArray_GETPTR1(result, i). A write outside orientation
\* i's own part of result (another worker's part, or outside the array) leaves
\* the result undefined.
\* The source index without the reversal: x, y, z running up with new_x, new_y,
\* new_z.
SourceIdxUnflipped(nx, ny, nz, new_x, new_y, new_z) ==
  new_x * ny * nz + new_y * nz + new_z

\* The source index x * ny * nz + y * nz + z of line 207 in the iteration whose
\* destination counters are new_x, new_y, new_z: the loops of lines 200-202
\* start x, y, z at the top and step them down as the counters step up.
SourceIdx(nx, ny, nz, new_x, new_y, new_z) ==
  (nx - 1 - new_x) * ny * nz + (ny - 1 - new_y) * nz + (nz - 1 - new_z)

RECURSIVE SumGridsFrom(_, _, _, _, _, _)
SumGridsFrom(res, grids, d, rd, roll_steps, step) ==
  LET n_grids == d[2]
      nx == d[3]
      ny == d[4]
      nz == d[5]
      N_grid_points == nx * ny * nz
      resStride == rd[2] * rd[3] * rd[4]
      i == step \div (n_grids * N_grid_points)
      j == (step \div N_grid_points) % n_grids
      t == step % N_grid_points
      new_x == t \div (ny * nz)
      new_y == (t % (ny * nz)) \div nz
      new_z == t % nz
      updated_idx == CRem(new_x + roll_steps, nx) * ny * nz +
                       CRem(new_y + roll_steps, ny) * nz +
                       CRem(new_z + roll_steps, nz)
      dst == i * resStride + updated_idx
      src == (i * n_grids + j) * N_grid_points
               + SourceIdx(nx, ny, nz, new_x, new_y, new_z)
  IN  IF step >= d[1] * n_grids * N_grid_points
      THEN [ok |-> TRUE, mem |-> res]
      ELSE IF i >= rd[1] \/ dst < i * resStride \/ dst >= (i + 1) * resStride
           THEN [ok |-> FALSE, mem |-> res]
           ELSE SumGridsFrom([res EXCEPT ![dst + 1] = res[dst + 1] + grids[src + 1]],
                             grids, d, rd, roll_steps, step + 1)

sum_grids(res, grids, d, rd, roll_steps) ==
  SumGridsFrom(res, grids, d, rd, roll_steps, 0)

SgInit ==
  /\ SelIdle /\ FrIdle /\ CbIdle
  /\ sgArgs \in SgArgKinds
  /\ \E o \in 1..MaxOrient, c \in 1..MaxChan, sh \in Shapes :
       /\ SgArgsValid(sgArgs) \/ (o = 1 /\ c = 1 /\ sh = <<1, 1, 1>>)
       /\ sgDims = <<o, c, sh[1], sh[2], sh[3]>>
       /\ sgResDims \in SgResultShapes(o, sh)
       /\ sgGrids = [a \in 1..(o * c * sh[1] * sh[2] * sh[3]) |-> a]
  /\ \E base \in 0..MaxBase :
       sgResult0 = [a \in 1..(sgResDims[1] * sgResDims[2] * sgResDims[3] * sgResDims[4])
                      |-> base]
  /\ sgResult = sgResult0
  /\ sgRoll \in RollSteps
  /\ sgPc = "call"

\* One call py_sum_grids(grids, roll_steps, result), lines 262-308.
PySumGrids ==
  /\ sgPc = "call"
  /\ \/ /\ sgArgs.gridsNdim # 5 \/ sgArgs.gridsType # "float32"
        /\ sgPc' = "TypeError"
        /\ sgResult' = sgResult
     \/ /\ ~(sgArgs.gridsNdim # 5 \/ sgArgs.gridsType # "float32")
        /\ sgArgs.resultNdim # 4 \/ sgArgs.resultType # "float32"
        /\ sgPc' = "TypeError"
        /\ sgResult' = sgResult
     \/ /\ SgArgsValid(sgArgs)
        /\ LET r == sum_grids(sgResult, sgGrids, sgDims, sgResDims, sgRoll)
           IN  \/ /\ r.ok
                  /\ sgResult' = r.mem
                  /\ sgPc' = "done"
               \/ /\ ~r.ok
                  /\ sgResult' = sgResult
                  /\ sgPc' = "undefined"
  /\ UNCHANGED <<sgArgs, sgDims, sgResDims, sgGrids, sgResult0, sgRoll, selVars, frVars, cbVars>>

SgNext == PySumGrids

SpecSum == SgInit /\ [][SgNext]_vars

(***************************************************************************)
(* py_fft_correlate_batch, fft_correlate_batch                             *)
(*                                                                         *)
(* Array contents are symbolic: the cell at address a holds <<"T", a>> in  *)
(* recep_grid and <<"L", a>> in result when the call is made; a forward    *)
(* transform of cells cs yields the spectrum <<"F", cs>>, the pointwise    *)
(* conjugate multiply of spectra r and l (with the scale) <<"M", r, l>>,   *)
(* and the inverse transform of spectrum sp the cells <<"I", sp, k>>.      *)
(***************************************************************************)
CbArgKinds ==
  {[recepNdim |-> 4, recepType |-> "float32", resultNdim |-> 5, resultType |-> "float32"],
   [recepNdim |-> 3, recepType |-> "float32", resultNdim |-> 5, resultType |-> "float32"],
   [recepNdim |-> 4, recepType |-> "float64", resultNdim |-> 5, resultType |-> "float32"],
   [recepNdim |-> 4, recepType |-> "float32", resultNdim |-> 4, resultType |-> "float32"],
   [recepNdim |-> 4, recepType |-> "float32", resultNdim |-> 5, resultType |-> "float64"]}

CbArgsValid(a) ==
  /\ a.recepNdim = 4 /\ a.recepType = "float32"
  /\ a.resultNdim = 5 /\ a.resultType = "float32"

\* Spatial shapes of the arrays handed to the correlation: at most MaxPoints
\* grid points.
CbShapes == {sh \in Shapes : sh[1] * sh[2] * sh[3] <= MaxPoints}

Handles == {"fft_r", "fft_l", "plan_fwd", "plan_inv"}

\* Lines 74-81.
n_grids == recepDims[1]
n_orientations == resultDims[1]
N_grid_points == recepDims[2] * recepDims[3] * recepDims[4]
N_fft_points == recepDims[2] * recepDims[3] * (recepDims[4] \div 2 + 1)

\* Address of PyArray_GETPTR1(recep_grid, i) and of PyArray_GETPTR2(result, j, i),
\* from each array's own dimensions.
RecepPtr(i) == i * recepDims[2] * recepDims[3] * recepDims[4]
ResultPtr(j, i) ==
  (j * resultDims[2] + i) * resultDims[3] * resultDims[4] * resultDims[5]

\* The N_grid_points addresses a transform reads or writes from `base` on, and
\* whether they reach past the end of an array of `size` cells.
Span(base) == base..(base + N_grid_points - 1)
Overruns(base, size) == base + N_grid_points > size

\* The cells a transform reads from `base` on; a read past the end of the
\* array yields an unknown value.
ReadCells(mem, base) ==
  [k \in 1..N_grid_points |->
     IF base + k - 1 < Len(mem) THEN mem[base + k] ELSE <<"oob">>]

CbInit ==
  /\ SelIdle /\ FrIdle /\ SgIdle
  /\ cbArgs \in CbArgKinds
  /\ \E c \in 0..MaxChan, cr \in 0..MaxChan, o \in 0..MaxOrient,
        sh \in CbShapes, rsh \in CbShapes :
       /\ CbArgsValid(cbArgs) \/ (c = 1 /\ cr = 1 /\ o = 1 /\ sh = <<1, 1, 1>> /\ rsh = sh)
       /\ recepDims = <<c, sh[1], sh[2], sh[3]>>
       /\ resultDims = <<o, cr, rsh[1], rsh[2], rsh[3]>>
       /\ recep = [a \in 1..(c * sh[1] * sh[2] * sh[3]) |-> <<"T", a - 1>>]
       /\ lig = [a \in 1..(o * cr * rsh[1] * rsh[2] * rsh[3]) |-> <<"L", a - 1>>]
  /\ recep0 = recep
  /\ ligWrites = [a \in 1..Len(lig) |-> 0]
  /\ n_threads \in 1..MaxThreads
  /\ handle = [h \in Handles |-> "none"]
  /\ released = [h \in Handles |-> 0]
  /\ fft_rVal = <<"unset">>
  /\ fft_lVal = [j \in 1..resultDims[1] |-> <<"unset">>]
  /\ cb_i = 0
  /\ wpc = [j \in 1..resultDims[1] |-> "done"]
  /\ nExec = 0
  /\ cbPc = "call"

\* The checks of py_fft_correlate_batch, lines 233-257.
PyFftCorrelateBatch ==
  /\ cbPc = "call"
  /\ \/ /\ cbArgs.recepNdim # 4 \/ cbArgs.recepType # "float32"
        /\ cbPc' = "TypeError"
     \/ /\ ~(cbArgs.recepNdim # 4 \/ cbArgs.recepType # "float32")
        /\ cbArgs.resultNdim # 5 \/ cbArgs.resultType # "float32"
        /\ cbPc' = "TypeError"
     \/ /\ CbArgsValid(cbArgs)
        /\ recepDims[1] # resultDims[2]
        /\ cbPc' = "TypeError"
     \/ /\ CbArgsValid(cbArgs)
        /\ recepDims[1] = resultDims[2]
        /\ cbPc' = "alloc"
  /\ UNCHANGED <<cbArgs, recepDims, resultDims, n_threads, recep, recep0, lig, ligWrites,
                 handle, released, fft_rVal, fft_lVal, cb_i, wpc, nExec,
                 selVars, frVars, sgVars>>

\* fftwf_malloc of fft_r and fft_l, lines 90-91: each returns memory or NULL.
AllocateBuffers ==
  /\ cbPc = "alloc"
  /\ \E r \in {"live", "null"}, l \in {"live", "null"} :
       handle' = [handle EXCEPT !["fft_r"] = r, !["fft_l"] = l]
  /\ cbPc' = "plan_fwd"
  /\ UNCHANGED <<cbArgs, recepDims, resultDims, n_threads, recep, recep0, lig, ligWrites,
                 released, fft_rVal, fft_lVal, cb_i, wpc, nExec,
                 selVars, frVars, sgVars>>

\* The cells of `mem` from `base` on after an FFTW_MEASURE planner has used
\* them as scratch.
Scribbled(mem, base) ==
  [a \in 1..Len(mem) |-> IF a - 1 \in Span(base) THEN <<"planner">> ELSE mem[a]]

\* fftwf_plan_dft_r2c_3d(nx, ny, nz, recep_arr, fft_r, FFTW_MEASURE), line 94.
\* The planner returns a plan or NULL. With FFTW_MEASURE it overwrites the
\* arrays it is handed while it times candidate plans, unless wisdom for the
\* problem is at hand; writing through a NULL buffer ends the process, and a
\* write past the end of an array may end it.
CreatePlanFwd ==
  /\ cbPc = "plan_fwd"
  /\ \/ /\ \E p \in {"live", "null"} : handle' = [handle EXCEPT !["plan_fwd"] = p]
        /\ cbPc' = "plan_inv"
        /\ UNCHANGED <<recep, fft_rVal>>
     \/ /\ handle["fft_r"] = "live"
        /\ handle' = [handle EXCEPT !["plan_fwd"] = "live"]
        /\ recep' = Scribbled(recep, RecepPtr(0))
        /\ fft_rVal' = <<"planner">>
        /\ cbPc' = "plan_inv"
     \/ /\ handle["fft_r"] = "null" \/ Overruns(RecepPtr(0), Len(recep))
        /\ cbPc' = "crashed"
        /\ UNCHANGED <<handle, recep, fft_rVal>>
  /\ UNCHANGED <<cbArgs, recepDims, resultDims, n_threads, recep0, lig, ligWrites,
                 released, fft_lVal, cb_i, wpc, nExec, selVars, frVars, sgVars>>

\* fftwf_plan_dft_c2r_3d(nx, ny, nz, fft_l, lig_arr, FFTW_MEASURE), line 95;
\* lig_arr is the start of result. Then the channel loop is entered, or left
\* at once when there is no channel.
CreatePlanInv ==
  /\ cbPc = "plan_inv"
  /\ \/ /\ \E p \in {"live", "null"} : handle' = [handle EXCEPT !["plan_inv"] = p]
        /\ cbPc' = IF n_grids > 0 THEN "chan" ELSE "cleanup"
        /\ UNCHANGED <<lig, ligWrites, fft_lVal>>
     \/ /\ handle["fft_l"] = "live"
        /\ handle' = [handle EXCEPT !["plan_inv"] = "live"]
        /\ lig' = Scribbled(lig, ResultPtr(0, 0))
        /\ ligWrites' = [a \in 1..Len(lig) |->
                           IF a - 1 \in Span(ResultPtr(0, 0))
                           THEN ligWrites[a] + 1 ELSE ligWrites[a]]
        /\ fft_lVal' = [j \in 1..Len(fft_lVal) |->
                          IF j = 1 THEN <<"planner">> ELSE fft_lVal[j]]
        /\ cbPc' = IF n_grids > 0 THEN "chan" ELSE "cleanup"
     \/ /\ handle["fft_l"] = "null" \/ Overruns(ResultPtr(0, 0), Len(lig))
        /\ cbPc' = "crashed"
        /\ UNCHANGED <<handle, lig, ligWrites, fft_lVal>>
  /\ UNCHANGED <<cbArgs, recepDims, resultDims, n_threads, recep, recep0,
                 released, fft_rVal, cb_i, wpc, nExec, selVars, frVars, sgVars>>

\* fftwf_execute_dft_r2c(plan_fwd, cur_recep, fft_r) for channel i, lines
\* 100-101, and the start of the parallel loop. Executing a NULL plan, or into
\* a NULL buffer, ends the process.
TargetForward ==
  /\ cbPc = "chan"
  /\ \/ /\ handle["plan_fwd"] = "live" /\ handle["fft_r"] = "live"
        /\ fft_rVal' = <<"F", ReadCells(recep, RecepPtr(cb_i))>>
        /\ nExec' = nExec + 1
        /\ wpc' = [j \in 1..n_orientations |-> "fwd"]
        /\ cbPc' = "region"
     \/ /\ ~(handle["plan_fwd"] = "live" /\ handle["fft_r"] = "live")
        /\ cbPc' = "crashed"
        /\ UNCHANGED <<fft_rVal, nExec, wpc>>
  /\ UNCHANGED <<cbArgs, recepDims, resultDims, n_threads, recep, recep0, lig, ligWrites,
                 handle, released, fft_lVal, cb_i, selVars, frVars, sgVars>>

\* Iterations of the parallel loop that have begun and not finished.
Begun == {j \in 1..n_orientations : wpc[j] \in {"mul", "inv"}}

\* #pragma omp parallel for num_threads(n_threads), line 102: an iteration
\* that has begun runs on; one that has not may begin while a thread of the
\* team is free.
MayRun(j) ==
  \/ wpc[j] \in {"mul", "inv"}
  \/ wpc[j] = "fwd" /\ Cardinality(Begun) < n_threads

\* The slice cur_fft_l = fft_l + j * N_fft_points of iteration j (0-based).
FftLSlice(j) == (j * N_fft_points)..((j + 1) * N_fft_points - 1)

\* fftwf_execute_dft_r2c(plan_fwd, cur_lig, cur_fft_l) of iteration j (1-based
\* here; the C loop variable is j - 1), lines 104-108.
WorkerForward(j) ==
  /\ cbPc = "region"
  /\ wpc[j] = "fwd"
  /\ MayRun(j)
  /\ \/ /\ handle["plan_fwd"] = "live" /\ handle["fft_l"] = "live"
        /\ fft_lVal' = [fft_lVal EXCEPT ![j] =
                          <<"F", ReadCells(lig, ResultPtr(j - 1, cb_i))>>]
        /\ nExec' = nExec + 1
        /\ wpc' = [wpc EXCEPT ![j] = "mul"]
        /\ cbPc' = cbPc
     \/ /\ \/ ~(handle["plan_fwd"] = "live" /\ handle["fft_l"] = "live")
           \/ Overruns(ResultPtr(j - 1, cb_i), Len(lig))
        /\ cbPc' = "crashed"
        /\ UNCHANGED <<fft_lVal, nExec, wpc>>
  /\ UNCHANGED <<cbArgs, recepDims, resultDims, n_threads, recep, recep0, lig, ligWrites,
                 handle, released, fft_rVal, cb_i, selVars, frVars, sgVars>>

\* The pointwise loop cur_fft_l[k] = conjf(fft_r[k]) * cur_fft_l[k] * scale,
\* lines 110-112.
WorkerMultiply(j) ==
  /\ cbPc = "region"
  /\ wpc[j] = "mul"
  /\ fft_lVal' = [fft_lVal EXCEPT ![j] = <<"M", fft_rVal, fft_lVal[j]>>]
  /\ nExec' = nExec + 1
  /\ wpc' = [wpc EXCEPT ![j] = "inv"]
  /\ UNCHANGED <<cbArgs, recepDims, resultDims, n_threads, recep, recep0, lig, ligWrites,
                 handle, released, fft_rVal, cb_i, cbPc, selVars, frVars, sgVars>>

\* fftwf_execute_dft_c2r(plan_inv, cur_fft_l, cur_lig), line 114: the cells
\* from cur_lig on receive the inverse transform of the slice.
WorkerInverse(j) ==
  /\ cbPc = "region"
  /\ wpc[j] = "inv"
  /\ \/ /\ handle["plan_inv"] = "live"
        /\ lig' = [a \in 1..Len(lig) |->
                     IF a - 1 \in Span(ResultPtr(j - 1, cb_i))
                     THEN <<"I", fft_lVal[j], a - 1 - ResultPtr(j - 1, cb_i)>>
                     ELSE lig[a]]
        /\ ligWrites' = [a \in 1..Len(lig) |->
                           IF a - 1 \in Span(ResultPtr(j - 1, cb_i))
                           THEN ligWrites[a] + 1 ELSE ligWrites[a]]
        /\ nExec' = nExec + 1
        /\ wpc' = [wpc EXCEPT ![j] = "done"]
        /\ cbPc' = cbPc
     \/ /\ \/ handle["plan_inv"] # "live"
           \/ Overruns(ResultPtr(j - 1, cb_i), Len(lig))
        /\ cbPc' = "crashed"
        /\ UNCHANGED <<lig, ligWrites, nExec, wpc>>
  /\ UNCHANGED <<cbArgs, recepDims, resultDims, n_threads, recep, recep0,
                 handle, released, fft_rVal, fft_lVal, cb_i, selVars, frVars, sgVars>>

\* The join at the end of the parallel loop and the step of the channel loop,
\* lines 99 and 115-116.
JoinRegion ==
  /\ cbPc = "region"
  /\ \A j \in 1..n_orientations : wpc[j] = "done"
  /\ cb_i' = cb_i + 1
  /\ cbPc' = IF cb_i + 1 < n_grids THEN "chan" ELSE "cleanup"
  /\ UNCHANGED <<cbArgs, recepDims, resultDims, n_threads, recep, recep0, lig, ligWrites,
                 handle, released, fft_rVal, fft_lVal, wpc, nExec,
                 selVars, frVars, sgVars>>

\* A clean-up that forgets the candidates' spectrum buffer.
CleanupOrderLeaky == <<"plan_fwd", "plan_inv", "fft_r">>

\* The handles released on the way out, in order, lines 119-122.
CleanupOrder == <<"plan_fwd", "plan_inv", "fft_r", "fft_l">>

\* fftwf_destroy_plan and fftwf_free do nothing for NULL.
RECURSIVE ReleaseAll(_, _, _)
ReleaseAll(hs, rel, order) ==
  IF order = <<>> THEN [handle |-> hs, released |-> rel]
  ELSE LET h == Head(order)
       IN  IF hs[h] = "null"
           THEN ReleaseAll(hs, rel, Tail(order))
           ELSE ReleaseAll([hs EXCEPT ![h] = "freed"],
                           [rel EXCEPT ![h] = rel[h] + 1], Tail(order))

\* Lines 118-123 and the return to Python.
Cleanup ==
  /\ cbPc = "cleanup"
  /\ LET r == ReleaseAll(handle, released, CleanupOrder)
     IN  /\ handle' = r.handle
         /\ released' = r.released
  /\ cbPc' = "returned"
  /\ UNCHANGED <<cbArgs, recepDims, resultDims, n_threads, recep, recep0, lig, ligWrites,
                 fft_rVal, fft_lVal, cb_i, wpc, nExec, selVars, frVars, sgVars>>

CbNext ==
  \/ PyFftCorrelateBatch
  \/ AllocateBuffers
  \/ CreatePlanFwd
  \/ CreatePlanInv
  \/ TargetForward
  \/ \E j \in 1..n_orientations : WorkerForward(j)
  \/ \E j \in 1..n_orientations : WorkerMultiply(j)
  \/ \E j \in 1..n_orientations : WorkerInverse(j)
  \/ JoinRegion
  \/ Cleanup

SpecBatch == CbInit /\ [][CbNext]_vars

(***************************************************************************)
(* Properties of the batched correlation                                   *)
(***************************************************************************)
CbShapeMismatch ==
  \/ recepDims[1] # resultDims[2]
  \/ <<recepDims[2], recepDims[3], recepDims[4]>>
       # <<resultDims[3], resultDims[4], resultDims[5]>>

\* C2 as stated: a call whose target and candidate arrays disagree in channel
\* count or in any spatial dimension is rejected with an error before any plan
\* is built or any transform is executed, and the candidate array is left
\* unchanged.
C2_MismatchRejected ==
  (CbShapeMismatch /\ cbPc # "call") =>
     /\ cbPc = "TypeError"
     /\ handle["plan_fwd"] = "none" /\ handle["plan_inv"] = "none"
     /\ nExec = 0
     /\ \A a \in 1..Len(lig) : lig[a] = <<"L", a - 1>>

\* Cells of result the statement iteration j runs next reads and writes, and
\* cells of fft_l likewise; a statement that would execute a NULL plan, or
\* into a NULL buffer, touches nothing.
ForwardRuns == handle["plan_fwd"] = "live" /\ handle["fft_l"] = "live"
InverseRuns == handle["plan_inv"] = "live"
LigReads(j) ==
  IF wpc[j] = "fwd" /\ ForwardRuns THEN Span(ResultPtr(j - 1, cb_i)) ELSE {}
LigWrites(j) ==
  IF wpc[j] = "inv" /\ InverseRuns THEN Span(ResultPtr(j - 1, cb_i)) ELSE {}
FftLReads(j) ==
  IF wpc[j] = "mul" \/ (wpc[j] = "inv" /\ InverseRuns) THEN FftLSlice(j - 1) ELSE {}
FftLWrites(j) ==
  IF (wpc[j] = "fwd" /\ ForwardRuns) \/ wpc[j] = "mul" \/ (wpc[j] = "inv" /\ InverseRuns)
  THEN FftLSlice(j - 1) ELSE {}

\* Two iterations whose next statements can run at the same time on two
\* threads of the team.
Concurrent(j, k) ==
  /\ j # k
  /\ wpc[j] # "done" /\ wpc[k] # "done"
  /\ Cardinality(Begun \cup {j, k}) <= n_threads

Conflict(j, k) ==
  \/ LigWrites(j) \cap (LigReads(k) \cup LigWrites(k)) # {}
  \/ FftLWrites(j) \cap (FftLReads(k) \cup FftLWrites(k)) # {}

\* C3 as stated: in every interleaving of the orientation workers no location
\* is written by one worker while another reads or writes it, and the shared
\* target spectrum is not written inside the parallel region: it stays the
\* transform of the channel computed before the workers started.
C3_NoSharedWrites ==
  cbPc = "region" =>
     /\ \A j, k \in 1..n_orientations : Concurrent(j, k) => ~Conflict(j, k)
     /\ fft_rVal = <<"F", ReadCells(recep, RecepPtr(cb_i))>>

\* C4 as stated: once the allocation of a spectrum buffer or the construction
\* of a plan has failed, no forward transform, pointwise multiply or inverse
\* transform is executed.
C4_NoWorkAfterFailure ==
  (\E h \in Handles : handle[h] = "null") => nExec = 0

\* C5 as stated: after the call returns, every element of every target channel
\* equals its value before the call.
C5_TargetUnchanged ==
  cbPc = "returned" => recep = recep0

\* C9: when the call returns, every buffer and plan it created has been
\* released exactly once and none is still allocated (a NULL from a failed
\* allocation was never created and is released zero times); at no point has
\* anything been released twice.
C9_ReleasedExactlyOnce ==
  /\ \A h \in Handles : released[h] <= 1
  /\ cbPc = "returned" =>
       \A h \in Handles :
          \/ handle[h] = "freed" /\ released[h] = 1
          \/ handle[h] = "null" /\ released[h] = 0

\* A call that built both buffers and both plans, ran the whole pipeline for
\* at least one candidate field, and returned.
C9_Witness ==
  /\ cbPc = "returned"
  /\ \A h \in Handles : handle[h] = "freed"
  /\ nExec >= 4

\* The cells of target channel c and of candidate field (o, c) when the call
\* was made.
TargetField0(c) ==
  [k \in 1..N_grid_points |-> <<"T", RecepPtr(c) + k - 1>>]
CandidateField0(o, c) ==
  [k \in 1..(resultDims[3] * resultDims[4] * resultDims[5]) |->
     <<"L", ResultPtr(o, c) + k - 1>>]

\* C10 as stated: when the call returns, every candidate entry (o, c) has been
\* overwritten exactly once and holds inverse(conj(forward(target[c])) *
\* forward(original candidate (o, c)) * scale).
C10_CorrelationSurfaces ==
  cbPc = "returned" =>
     \A o \in 0..(resultDims[1] - 1), c \in 0..(resultDims[2] - 1),
        k \in 0..(resultDims[3] * resultDims[4] * resultDims[5] - 1) :
        /\ ligWrites[ResultPtr(o, c) + k + 1] = 1
        /\ lig[ResultPtr(o, c) + k + 1] =
             <<"I", <<"M", <<"F", TargetField0(c)>>, <<"F", CandidateField0(o, c)>>>>, k>>

(***************************************************************************)
(* Properties of flip_and_roll and sum_grids                               *)
(***************************************************************************)
FrAxisLengths == {frDims[3], frDims[4], frDims[5]}

\* What one call of flip_and_roll with roll_steps r makes of the original data.
FrRolledOnce(r) == FlipAndRollFrom(frOrig, frDims, r, 0)

\* C7 as stated: the roll of flip_and_roll / roll_cur_idx satisfies, for all
\* integers r, r1, r2 and each axis length L, roll(field, r) = roll(field, r
\* mod L), roll(field, 0) = field and roll(roll(field, r1), r2) = roll(field,
\* (r1 + r2) mod L). The identities that name L are stated for grids whose
\* three axes all have length L.
C7_RollIdentities ==
  /\ frPc # "undefined"
  /\ frSteps = <<0>> => frGrids = frOrig
  /\ (Len(frSteps) = 1 /\ Cardinality(FrAxisLengths) = 1) =>
       \A L \in FrAxisLengths :
          /\ FrRolledOnce(frSteps[1] % L).ok
          /\ frGrids = FrRolledOnce(frSteps[1] % L).mem
  /\ (Len(frSteps) = 2 /\ Cardinality(FrAxisLengths) = 1) =>
       \A L \in FrAxisLengths :
          /\ FrRolledOnce((frSteps[1] + frSteps[2]) % L).ok
          /\ frGrids = FrRolledOnce((frSteps[1] + frSteps[2]) % L).mem

SgPoints == sgDims[3] * sgDims[4] * sgDims[5]

\* The cell (x, y, z) of orientation i in result, and in the only grid of
\* orientation i in grids.
SgResultAt(res, i, x, y, z) ==
  res[i * sgResDims[2] * sgResDims[3] * sgResDims[4]
        + x * sgResDims[3] * sgResDims[4] + y * sgResDims[4] + z + 1]

SgGridAt(i, x, y, z) ==
  sgGrids[i * sgDims[2] * SgPoints + x * sgDims[4] * sgDims[5] + y * sgDims[5] + z + 1]

SgSingleChannelNoRoll ==
  /\ sgPc = "done"
  /\ sgDims[2] = 1
  /\ sgRoll = 0
  /\ sgResDims = <<sgDims[1], sgDims[3], sgDims[4], sgDims[5]>>

\* C6 as stated: with one channel and roll = 0 the score field of each
\* orientation is the three-axis reversal of its input field:
\* result[x,y,z] = input[nx-1-x, ny-1-y, nz-1-z].
C6_ResultIsReversal ==
  SgSingleChannelNoRoll =>
    \A i \in 0..(sgDims[1] - 1), x \in 0..(sgDims[3] - 1),
       y \in 0..(sgDims[4] - 1), z \in 0..(sgDims[5] - 1) :
       SgResultAt(sgResult, i, x, y, z) =
         SgGridAt(i, sgDims[3] - 1 - x, sgDims[4] - 1 - y, sgDims[5] - 1 - z)

\* C6 amended: with one channel and roll = 0, sum_grids adds the three-axis
\* reversal of each orientation's input field to what the result array, of
\* shape (n_orientations, nx, ny, nz), held when it was passed in:
\* result[x,y,z] = result_before[x,y,z] + input[nx-1-x, ny-1-y, nz-1-z].
C6_ReversalAddedToResult ==
  SgSingleChannelNoRoll =>
    \A i \in 0..(sgDims[1] - 1), x \in 0..(sgDims[3] - 1),
       y \in 0..(sgDims[4] - 1), z \in 0..(sgDims[5] - 1) :
       SgResultAt(sgResult, i, x, y, z) =
         SgResultAt(sgResult0, i, x, y, z)
           + SgGridAt(i, sgDims[3] - 1 - x, sgDims[4] - 1 - y, sgDims[5] - 1 - z)

\* A finished single-channel call with roll = 0 over more than one orientation,
\* a grid with more than one point along every axis, and a result array that
\* was not all zero when passed in.
C6_Witness ==
  /\ SgSingleChannelNoRoll
  /\ sgDims[1] > 1 /\ sgDims[3] > 1 /\ sgDims[4] > 1 /\ sgDims[5] > 1
  /\ \E a \in 1..Len(sgResult0) : sgResult0[a] # 0
  /\ sgResult # sgResult0

(***************************************************************************)
(* Properties of get_top_n_scores                                          *)
(***************************************************************************)
KeptIndices == {top_scores[k].index : k \in 1..Len(top_scores)}

\* The input positions a full sort by (score, index) puts first.
FullSortLowest(N) ==
  {i \in 0..(Len(scores) - 1) :
     Cardinality({j \in 0..(Len(scores) - 1) :
        \/ scores[j + 1] < scores[i + 1]
        \/ scores[j + 1] = scores[i + 1] /\ j < i}) < N}

\* The output has N entries at N distinct input positions, each carrying the
\* score found at its position, and no entry left out scores lower than a
\* kept one.
KeepsLowestScores ==
  /\ Len(top_scores) = top_n_poses
  /\ Cardinality(KeptIndices) = top_n_poses
  /\ \A k \in 1..Len(top_scores) :
       /\ top_scores[k].index \in 0..(Len(scores) - 1)
       /\ top_scores[k].score = scores[top_scores[k].index + 1]
  /\ \A k \in 1..Len(top_scores) :
       \A j \in (0..(Len(scores) - 1)) \ KeptIndices :
          top_scores[k].score <= scores[j + 1]

\* C1 as stated: for 1 <= N <= n the returned (index, score) pairs are exactly
\* the N lowest-scoring entries as a full sort gives them, ties at the cut-off
\* going to the earlier indices.
C1_FullSortWithTies ==
  (selPc = "done" /\ top_n_poses <= Len(scores)) =>
     /\ KeepsLowestScores
     /\ KeptIndices = FullSortLowest(top_n_poses)

\* C1 amended: for 1 <= N <= n the result holds N entries at distinct original
\* positions whose scores are the N lowest of the input, and an entry is kept
\* only if fewer than N earlier entries score no higher than it (a later entry
\* of equal score never displaces a kept one). Which of several kept entries
\* tying for the worst score a later, strictly lower score evicts is left to
\* qsort, so the earlier index does not always survive at the cut-off.
C1_LowestScoresKept ==
  (selPc = "done" /\ top_n_poses <= Len(scores)) =>
     /\ KeepsLowestScores
     /\ \A k \in 1..Len(top_scores) :
          Cardinality({j \in 0..(top_scores[k].index - 1) :
             scores[j + 1] <= top_scores[k].score}) < top_n_poses

\* A finished scan of a stream at least N long in which an entry was replaced
\* and an entry left out ties with the worst kept score.
C1_Witness ==
  /\ selPc = "done"
  /\ top_n_poses <= Len(scores)
  /\ \E k \in 1..Len(top_scores) : top_scores[k].index >= top_n_poses
  /\ \E j \in (0..(Len(scores) - 1)) \ KeptIndices :
       scores[j + 1] = top_scores[1].score

SortedDescending(t) ==
  \A a, b \in 1..Len(t) : a < b => t[a].score >= t[b].score

\* C8 as stated: for every input stream and capacity N the returned set is
\* sorted descending by score, and during the scan, once N entries have been
\* accepted, the front entry is the highest-scoring kept entry before every
\* later comparison.
C8_SortedDescending ==
  /\ selPc = "done" => SortedDescending(top_scores)
  /\ (selPc = "scan" /\ sel_i >= top_n_poses) =>
       \A k \in 1..top_n_poses : heap[1].score >= heap[k].score

====
